---------------------------- MODULE Spec2Model ----------------------------
(***************************************************************************)
(* Posture monitor: the four client programs of the repository as state    *)
(* machines.                                                               *)
(*   A_  src/my-app/src/App.js      (React dashboard, configurable zones)  *)
(*   B_  src/unnamed/part_001       (React dashboard, fixed zones)         *)
(*   P_  src/unnamed/part_002       (PosturePal, simulated angle stream)   *)
(*   F_  src/unnamed/part_000       (Flutter app: BLE + sqflite)           *)
(*   E_  src/unnamed/part_000       (ESP32 firmware, lines 1380-1578)      *)
(* Angles of the web variants are kept in tenths of a degree, which is the *)
(* resolution toFixed(1) leaves them with; thresholds are in degrees.      *)
(***************************************************************************)
EXTENDS Integers, Sequences, FiniteSets, TLC

VARIABLES
  \* ---- classifier harness (pure functions applied to a drawn input)
  c_angle, c_thr, c_out,
  \* ---- part_001 dashboard
  B_isConnected, B_isActive, B_currentAngle, B_liveData, B_sessionData,
  B_notification, B_streak, B_achievements, B_sessionStartTime, B_elapsedTime,
  B_lastSmoothedRef, B_bestStreakRef,
  B_inflight,      \* fetches issued by pollESP whose response is pending
  B_clearTimers,   \* pending setTimeout(() => setNotification(null), ..)
  \* ---- part_002 PosturePal
  P_page, P_isSessionActive, P_currentAngle, P_postureStatus, P_liveData,
  P_sessionHistory, P_notification, P_badPostureStartTime,
  P_now,           \* the clock (ms) at the last tick or interval restart
  P_lastWarnAt,    \* history: when the last 'alert' notification was raised
  \* ---- part_000 Flutter app: _LiveScreenState
  F_listening, F_isSessionActive, F_currentAngle, F_postureStatus,
  F_sessionTime, F_realtimeData, F_currentSessionId, F_goodPostureSeconds,
  F_badPostureSeconds, F_totalAngle, F_worstAngle, F_angleCount,
  F_sessionTimer,  \* the Timer held in _sessionTimer (0: none)
  F_timers,        \* the periodic timers that have not been cancelled
  \* ---- part_000 Flutter app: DatabaseService
  F_sessions, F_readings, F_daily,
  F_dbQueue,       \* database calls issued and not yet completed, in order
  F_today,         \* the local calendar day
  F_otherSeconds,  \* history: timer ticks counted as neither good nor bad
  \* ---- part_000 Flutter app: BluetoothService
  F_scanListeners, \* listeners on FlutterBluePlus.scanResults
  F_scanning,      \* a scan is running
  F_subscriptions, \* listeners on the characteristic's lastValueStream
  F_emitted,       \* history: values the device has notified
  F_delivering,    \* readings added to dataStream, not yet at the listener
  \* ---- App.js dashboard: configuration
  A_settings,
  A_storage,       \* localStorage 'postureSettings'
  A_notification,
  A_clearTimers,   \* pending setTimeout(() => setNotification(null), 3000)
  \* ---- App.js dashboard: connection and session
  A_isConnected, A_isActive, A_currentAngle, A_liveData, A_sessionData,
  A_streak, A_elapsedTime, A_lastSmoothedRef, A_sessionStartTimeRef,
  A_now,           \* the clock (ms)
  A_pollDue,       \* when the interval of the Polling Loop effect fires next
  A_streakDue,     \* when the interval of the Streak Timer effect fires next
  A_elapsedDue,    \* when the interval of the Timer effect fires next
  A_goodSince,     \* history: since when the session is active in good posture
  \* ---- part_000 ESP32 firmware
  E_pc,            \* "setup", "halted" (while (1) after mpu.begin failed), "loop"
  E_last_time,     \* unsigned long, as two 16-bit halves
  E_dt,            \* in microseconds
  E_angle_pitch, E_angle_roll,      \* milliradians
  E_pitch_offset, E_roll_offset,    \* milliradians
  E_current_angle_for_web,          \* tenths of a degree
  E_motorPin,      \* level of MOTOR_PIN
  E_loops,         \* history: iterations of loop() completed
  E_pending,       \* a GET /angle request waits for server.handleClient()
  E_responses      \* history: the angles sent in /angle responses

c_vars == <<c_angle, c_thr, c_out>>
B_dataVars == <<B_liveData, B_sessionData>>
B_vars == <<B_isConnected, B_isActive, B_currentAngle, B_liveData, B_sessionData,
            B_notification, B_streak, B_achievements, B_sessionStartTime,
            B_elapsedTime, B_lastSmoothedRef, B_bestStreakRef, B_inflight,
            B_clearTimers>>
P_vars == <<P_page, P_isSessionActive, P_currentAngle, P_postureStatus,
            P_liveData, P_sessionHistory, P_notification, P_badPostureStartTime,
            P_now, P_lastWarnAt>>
F_uiVars == <<F_listening, F_isSessionActive, F_currentAngle, F_postureStatus,
              F_sessionTime, F_realtimeData, F_currentSessionId,
              F_goodPostureSeconds, F_badPostureSeconds, F_totalAngle,
              F_worstAngle, F_angleCount, F_sessionTimer, F_timers,
              F_otherSeconds>>
F_dbVars == <<F_sessions, F_readings, F_daily, F_dbQueue, F_today>>
F_vars == <<F_uiVars, F_dbVars>>
F_bleVars == <<F_scanListeners, F_scanning, F_subscriptions, F_emitted,
               F_delivering>>
A_vars == <<A_settings, A_storage, A_notification, A_clearTimers>>
E_vars == <<E_pc, E_last_time, E_dt, E_angle_pitch, E_angle_roll,
            E_pitch_offset, E_roll_offset, E_current_angle_for_web, E_motorPin,
            E_loops, E_pending, E_responses>>
A_dataVars == <<A_isConnected, A_currentAngle, A_lastSmoothedRef, A_liveData,
                A_sessionData>>
A_sessVars == <<A_isConnected, A_isActive, A_currentAngle, A_liveData,
                A_sessionData, A_streak, A_elapsedTime, A_lastSmoothedRef,
                A_sessionStartTimeRef, A_now, A_pollDue, A_streakDue,
                A_elapsedDue, A_goodSince>>
vars == <<c_vars, B_vars, P_vars, F_vars, F_bleVars, A_vars, E_vars, A_sessVars>>

NULL == "null"

\* null in a variable that otherwise holds a time (ms)
NoTime == 0 - 1

Abs(x) == IF x < 0 THEN -x ELSE x
Max(a, b) == IF a >= b THEN a ELSE b
Min(a, b) == IF a <= b THEN a ELSE b

\* degrees -> tenths of a degree
Deg(d) == 10 * d

\* the last n elements of s (Array.prototype.slice(-n))
LastN(s, n) == IF Len(s) <= n THEN s ELSE SubSeq(s, Len(s) - n + 1, Len(s))

\* n/d rounded to the nearest integer, halves away from zero
\* (Number.prototype.toFixed on the decimal scale of the model)
RoundDiv(n, d) ==
  IF n >= 0 THEN (2 * n + d) \div (2 * d) ELSE -((2 * (-n) + d) \div (2 * d))

(***************************************************************************)
(* Bounds of the model                                                     *)
(***************************************************************************)
MaxAbsAngle == 300       \* classifier inputs: -30.0 .. 30.0 degrees
MaxSamples == 3          \* part_001: samples requested per session
MaxInflight == 2         \* part_001: fetches pending at once
MaxTimers == 2           \* part_001: pending notification timeouts
MaxClockSec == 7         \* part_002: seconds of session time followed
MaxSessionTime == 2      \* Flutter: seconds a session timer counts
MaxSessions == 1         \* Flutter: sessions created
MaxReadings == 1         \* Flutter: readings persisted
MaxQueue == 2            \* Flutter: database calls pending at once
MaxElapsed == 1          \* part_001: seconds counted by the elapsed timer
MaxScans == 2            \* Flutter: calls of startScan
MaxEmitted == 2          \* Flutter: values the device notifies
MaxStarts == 2           \* Flutter with Bluetooth: sessions created
MaxFolds == 2            \* Flutter, one session after another: sessions
MaxLoops == 3            \* firmware: iterations of loop() followed
MaxAppTicks == 6         \* App.js: poll intervals of time followed
MaxRequests == 2         \* firmware: GET /angle requests received

(***************************************************************************)
(* Classifiers                                                             *)
(***************************************************************************)
\* App.js DEFAULT_SETTINGS (degrees)
A_DEFAULT_SETTINGS ==
  [excellentThreshold |-> 5, goodThreshold |-> 15, fairThreshold |-> 25,
   smoothingAlpha100 |-> 15]

\* a wrong getStatus, for C19: the labels of the last two zones are swapped
C19_swappedLabels(angle, settings) ==
  LET absAngle == Abs(angle) IN
  IF absAngle <= Deg(settings.excellentThreshold) THEN "Excellent"
  ELSE IF absAngle <= Deg(settings.goodThreshold) THEN "Good"
  ELSE IF absAngle <= Deg(settings.fairThreshold) THEN "Poor"
  ELSE "Fair"

\* App.js getStatus: inclusive comparisons against the settings
A_getStatus(angle, settings) ==
  LET absAngle == Abs(angle) IN
  IF absAngle <= Deg(settings.excellentThreshold) THEN "Excellent"
  ELSE IF absAngle <= Deg(settings.goodThreshold) THEN "Good"
  ELSE IF absAngle <= Deg(settings.fairThreshold) THEN "Fair"
  ELSE "Poor"

\* part_001 STATUS table (degrees)
B_STATUS ==
  [EXCELLENT |-> [label |-> "Excellent", threshold |-> 5],
   GOOD      |-> [label |-> "Good",      threshold |-> 15],
   FAIR      |-> [label |-> "Fair",      threshold |-> 25],
   POOR      |-> [label |-> "Poor"]]

\* a wrong getStatus, for C20: the angle is compared with its sign
C20_signedAngle(angle) ==
  IF angle < Deg(B_STATUS.EXCELLENT.threshold) THEN B_STATUS.EXCELLENT.label
  ELSE IF angle < Deg(B_STATUS.GOOD.threshold) THEN B_STATUS.GOOD.label
  ELSE IF angle < Deg(B_STATUS.FAIR.threshold) THEN B_STATUS.FAIR.label
  ELSE B_STATUS.POOR.label

\* part_001 getStatus: strict comparisons
B_getStatus(angle) ==
  LET absAngle == Abs(angle) IN
  IF absAngle < Deg(B_STATUS.EXCELLENT.threshold) THEN B_STATUS.EXCELLENT.label
  ELSE IF absAngle < Deg(B_STATUS.GOOD.threshold) THEN B_STATUS.GOOD.label
  ELSE IF absAngle < Deg(B_STATUS.FAIR.threshold) THEN B_STATUS.FAIR.label
  ELSE B_STATUS.POOR.label

\* part_002 STATUS table (degrees)
P_STATUS ==
  [GOOD |-> [label |-> "Good",        threshold |-> 10],
   MILD |-> [label |-> "Mild Slouch", threshold |-> 20],
   BAD  |-> [label |-> "Bad Slouch"]]

\* part_002 getStatusFromAngle: strict comparisons, three classes
P_getStatusFromAngle(angle) ==
  LET absAngle == Abs(angle) IN
  IF absAngle < Deg(P_STATUS.GOOD.threshold) THEN P_STATUS.GOOD.label
  ELSE IF absAngle < Deg(P_STATUS.MILD.threshold) THEN P_STATUS.MILD.label
  ELSE P_STATUS.BAD.label

\* part_000 PostureReading.getPostureStatus: inclusive, three classes
F_getPostureStatus(pitch) ==
  IF Abs(pitch) <= Deg(10) THEN "good"
  ELSE IF Abs(pitch) <= Deg(20) THEN "mild"
  ELSE "bad"

\* thresholds the classifier harness draws for App.js (its sliders' range)
ThresholdChoices ==
  { [excellentThreshold |-> 5, goodThreshold |-> 15, fairThreshold |-> 25,
     smoothingAlpha100 |-> 15],
    [excellentThreshold |-> 8, goodThreshold |-> 12, fairThreshold |-> 30,
     smoothingAlpha100 |-> 15] }

\* no classifier has been applied yet
c_None == [A |-> NULL, B |-> NULL, P |-> NULL, F |-> NULL]

c_Init ==
  /\ c_angle \in (-MaxAbsAngle) .. MaxAbsAngle
  /\ c_thr \in ThresholdChoices
  /\ c_out = c_None

\* apply every classifier variant to the drawn angle
c_Classify ==
  /\ c_out = c_None
  /\ c_out' = [A |-> A_getStatus(c_angle, c_thr),
               B |-> B_getStatus(c_angle),
               P |-> P_getStatusFromAngle(c_angle),
               F |-> F_getPostureStatus(c_angle)]
  /\ UNCHANGED <<c_angle, c_thr>>

(***************************************************************************)
(* part_001 dashboard                                                      *)
(***************************************************************************)
B_SMOOTHING_ALPHA100 == 25      \* settings.smoothingAlpha = 0.25
B_LIVE_WINDOW == 240            \* liveData keeps prev.slice(-240)
B_SESSION_COMPLETE_MIN == 30    \* sessionData.length > 30
B_MILESTONE_1 == 60
B_MILESTONE_5 == 300

\* smooth(prev, next, alpha) followed by Number(..toFixed(1)), in tenths
B_smooth(prev, next, alpha100) ==
  RoundDiv(prev * (100 - alpha100) + next * alpha100, 100)

B_Init ==
  /\ B_isConnected = FALSE
  /\ B_isActive = FALSE
  /\ B_currentAngle = 0
  /\ B_liveData = <<>>
  /\ B_sessionData = <<>>
  /\ B_notification = NULL
  /\ B_streak = 0
  /\ B_achievements = <<>>
  /\ B_sessionStartTime = NULL
  /\ B_elapsedTime = 0
  /\ B_lastSmoothedRef = 0
  /\ B_bestStreakRef = 0
  /\ B_inflight = <<>>
  /\ B_clearTimers = 0

\* Remove element i of sequence s
RemoveAt(s, i) == SubSeq(s, 1, i - 1) \o SubSeq(s, i + 1, Len(s))

\* raw angles (tenths) the device may answer with
B_RawAngles == {0, 200, 800, 1200}

\* connectToESP, response.ok: connected, success notification, 3 s timeout
B_connectOk ==
  /\ B_clearTimers < MaxTimers
  /\ B_isConnected' = TRUE
  /\ B_notification' = "success"
  /\ B_clearTimers' = B_clearTimers + 1
  /\ UNCHANGED <<B_isActive, B_currentAngle, B_liveData, B_sessionData, B_streak,
                 B_achievements, B_sessionStartTime, B_elapsedTime,
                 B_lastSmoothedRef, B_bestStreakRef, B_inflight>>

\* connectToESP, fetch throws: disconnected
B_connectThrows ==
  /\ B_isConnected' = FALSE
  /\ UNCHANGED <<B_isActive, B_currentAngle, B_liveData, B_sessionData,
                 B_notification, B_streak, B_achievements, B_sessionStartTime,
                 B_elapsedTime, B_lastSmoothedRef, B_bestStreakRef, B_inflight,
                 B_clearTimers>>

\* a pending setTimeout(() => setNotification(null), ..) fires
B_notificationTimeout ==
  /\ B_clearTimers > 0
  /\ B_clearTimers' = B_clearTimers - 1
  /\ B_notification' = NULL
  /\ UNCHANGED <<B_isConnected, B_isActive, B_currentAngle, B_liveData,
                 B_sessionData, B_streak, B_achievements, B_sessionStartTime,
                 B_elapsedTime, B_lastSmoothedRef, B_bestStreakRef, B_inflight>>

\* Timer effect: once a second while the session is active
B_elapsedTick ==
  /\ B_isActive /\ B_sessionStartTime # NULL
  /\ B_elapsedTime < MaxElapsed
  /\ B_elapsedTime' = B_elapsedTime + 1
  /\ UNCHANGED <<B_isConnected, B_isActive, B_currentAngle, B_liveData,
                 B_sessionData, B_notification, B_streak, B_achievements,
                 B_sessionStartTime, B_lastSmoothedRef, B_bestStreakRef,
                 B_inflight, B_clearTimers>>

\* toggleSession; longSession is the value of sessionData.length > 30
B_toggleSession(longSession) ==
  IF ~B_isActive THEN
    IF ~B_isConnected THEN
      /\ B_clearTimers < MaxTimers
      /\ B_notification' = "error"
      /\ B_clearTimers' = B_clearTimers + 1
      /\ UNCHANGED <<B_isConnected, B_isActive, B_currentAngle, B_liveData,
                     B_sessionData, B_streak, B_achievements, B_sessionStartTime,
                     B_elapsedTime, B_lastSmoothedRef, B_bestStreakRef, B_inflight>>
    ELSE
      /\ B_isActive' = TRUE
      /\ B_liveData' = <<>>
      /\ B_sessionData' = <<>>
      /\ B_streak' = 0
      /\ B_bestStreakRef' = 0
      /\ B_achievements' = <<>>
      /\ B_sessionStartTime' = "set"
      /\ B_elapsedTime' = 0
      /\ B_lastSmoothedRef' = 0
      /\ UNCHANGED <<B_isConnected, B_currentAngle, B_notification, B_inflight,
                     B_clearTimers>>
  ELSE
    /\ longSession => B_clearTimers < MaxTimers
    /\ B_isActive' = FALSE
    /\ B_sessionStartTime' = NULL
    /\ B_achievements' =
         IF longSession THEN Append(B_achievements, "Session Complete")
         ELSE B_achievements
    /\ B_notification' = IF longSession THEN "achievement" ELSE B_notification
    /\ B_clearTimers' = IF longSession THEN B_clearTimers + 1 ELSE B_clearTimers
    /\ UNCHANGED <<B_isConnected, B_currentAngle, B_liveData, B_sessionData,
                   B_streak, B_elapsedTime, B_lastSmoothedRef, B_bestStreakRef,
                   B_inflight>>

\* the streak after a sample of the given status (setStreak in pollESP)
B_nextStreak(status, streak) ==
  IF status = "Excellent" \/ status = "Good" THEN streak + 1
  ELSE IF status = "Poor" THEN 0
  ELSE streak

\* the achievement pollESP awards when the streak becomes newStreak
B_milestoneTitle(newStreak, best) ==
  IF newStreak > best /\ newStreak = B_MILESTONE_1 THEN "1 Min Perfect"
  ELSE IF newStreak > best /\ newStreak = B_MILESTONE_5 THEN "5 Min Perfect"
  ELSE NULL

\* a best streak that no sample moves
C21_bestNeverMoves(good, newStreak, best) ==
  best

\* bestStreakRef.current after the setStreak updater of a sample
B_nextBest(good, newStreak, best) ==
  IF good /\ newStreak > best THEN newStreak ELSE best

\* pollESP after response.ok: smooth, classify, streak, warning.
\* captured is the notification of the render whose effect created pollESP.
B_applySample(captured, raw) ==
  LET smoothed == B_smooth(B_lastSmoothedRef, raw, B_SMOOTHING_ALPHA100)
      status == B_getStatus(smoothed)
      good == status = "Excellent" \/ status = "Good"
      newStreak == B_nextStreak(status, B_streak)
      title == IF good THEN B_milestoneTitle(newStreak, B_bestStreakRef) ELSE NULL
      award == title # NULL
      warn == status = "Poor" /\ captured = NULL
  IN /\ (award \/ warn) => B_clearTimers < MaxTimers
     /\ B_lastSmoothedRef' = smoothed
     /\ B_currentAngle' = smoothed
     /\ B_streak' = newStreak
     /\ B_bestStreakRef' = B_nextBest(good, newStreak, B_bestStreakRef)
     /\ B_achievements' = IF award THEN Append(B_achievements, title)
                          ELSE B_achievements
     /\ B_notification' = IF award THEN "achievement"
                          ELSE IF warn THEN "warning" ELSE B_notification
     /\ B_clearTimers' = IF award \/ warn THEN B_clearTimers + 1
                         ELSE B_clearTimers

\* pollESP: the point appended to liveData and sessionData
B_recordSample(raw) ==
  LET smoothed == B_smooth(B_lastSmoothedRef, raw, B_SMOOTHING_ALPHA100)
      point == [angle |-> smoothed, status |-> B_getStatus(smoothed)]
  IN /\ B_liveData' = Append(LastN(B_liveData, B_LIVE_WINDOW), point)
     /\ B_sessionData' = Append(B_sessionData, point)

\* setInterval(pollESP, pollInterval) fires: the fetch is issued
B_pollTick ==
  /\ B_isActive /\ B_isConnected
  /\ Len(B_inflight) < MaxInflight
  /\ Len(B_sessionData) + Len(B_inflight) < MaxSamples
  /\ B_inflight' = Append(B_inflight, B_notification)
  /\ UNCHANGED <<B_isConnected, B_isActive, B_currentAngle, B_liveData,
                 B_sessionData, B_notification, B_streak, B_achievements,
                 B_sessionStartTime, B_elapsedTime, B_lastSmoothedRef,
                 B_bestStreakRef, B_clearTimers>>

\* the response of pending fetch i arrives with response.ok
B_pollResponse ==
  \E i \in 1 .. Len(B_inflight), raw \in B_RawAngles :
    /\ B_applySample(B_inflight[i], raw)
    /\ B_recordSample(raw)
    /\ B_inflight' = RemoveAt(B_inflight, i)
    /\ UNCHANGED <<B_isConnected, B_isActive, B_sessionStartTime, B_elapsedTime>>

\* pending fetch i fails (not ok, or throws): setIsConnected(false)
B_pollFails ==
  \E i \in 1 .. Len(B_inflight) :
    /\ B_isConnected' = FALSE
    /\ B_inflight' = RemoveAt(B_inflight, i)
    /\ UNCHANGED <<B_isActive, B_currentAngle, B_liveData, B_sessionData,
                   B_notification, B_streak, B_achievements, B_sessionStartTime,
                   B_elapsedTime, B_lastSmoothedRef, B_bestStreakRef,
                   B_clearTimers>>

\* what the part_001 program leaves alone: the other programs
B_Others ==
  UNCHANGED <<c_vars, P_vars, F_vars, F_bleVars, A_vars, E_vars, A_sessVars>>

B_Next ==
  \/ B_connectOk /\ B_Others
  \/ B_connectThrows /\ B_Others
  \/ B_notificationTimeout /\ B_Others
  \/ B_elapsedTick /\ B_Others
  \/ B_toggleSession(Len(B_sessionData) > B_SESSION_COMPLETE_MIN) /\ B_Others
  \/ B_pollTick /\ B_Others
  \/ B_pollResponse /\ B_Others
  \/ B_pollFails /\ B_Others

(***************************************************************************)
(* part_002 PosturePal.  The interval callback is re-created by the effect *)
(* whenever badPostureStartTime or notification changes, so a tick always  *)
(* reads their current values, and every tick comes TICK_MS after the last *)
(* tick or effect run.  The Notification component's 5 s auto-close timer  *)
(* is restarted at every render (its onClose prop is a new function each   *)
(* time) and the app renders at every tick, so within a session it cannot  *)
(* expire; a notification goes away by the close button or at stop.        *)
(***************************************************************************)
P_TICK_MS == 1000
P_NOTIFY_DURATION_MS == 3000
P_REINFORCE_MS == 30000
P_LIVE_WINDOW == 50
P_TOP_MOMENTS == 3             \* topBadMoments: slice(0, 3)

P_Pages == {"live", "summary", "report", "settings"}

\* angles (tenths) the simulation produces after toFixed(1): its good range
\* is [-5, 5), its mild range +-[10, 20], its bad range +-[20, 30]
P_Angles == {20, 180, 200, 280}

\* delay (ms) between the last tick and a click on the close button
P_CloseDelays == {0, 500}

P_Init ==
  /\ P_page = "live"
  /\ P_isSessionActive = FALSE
  /\ P_currentAngle = 0
  /\ P_postureStatus = P_STATUS.GOOD.label
  /\ P_liveData = <<>>
  /\ P_sessionHistory = <<>>
  /\ P_notification = NULL
  /\ P_badPostureStartTime = NoTime
  /\ P_now = 0
  /\ P_lastWarnAt = NoTime

\* NavBar / Header / onClose: setPage
P_setPage(page) ==
  /\ P_page # page
  /\ P_page' = page
  /\ UNCHANGED <<P_isSessionActive, P_currentAngle, P_postureStatus, P_liveData,
                 P_sessionHistory, P_notification, P_badPostureStartTime, P_now,
                 P_lastWarnAt>>

\* handleToggleSession (the button of LiveScreen) and the effect that follows
P_handleToggleSession ==
  /\ P_page = "live"
  /\ IF ~P_isSessionActive THEN
       /\ P_isSessionActive' = TRUE
       /\ P_liveData' = <<>>
       /\ P_sessionHistory' = <<>>
       /\ P_currentAngle' = 0
       /\ P_postureStatus' = P_STATUS.GOOD.label
       /\ P_notification' = NULL
       /\ UNCHANGED <<P_page, P_badPostureStartTime, P_now, P_lastWarnAt>>
     ELSE
       /\ P_isSessionActive' = FALSE
       /\ P_page' = "summary"
       /\ P_notification' = NULL
       /\ P_badPostureStartTime' = NoTime
       /\ UNCHANGED <<P_currentAngle, P_postureStatus, P_liveData,
                      P_sessionHistory, P_now, P_lastWarnAt>>

\* Notification's X button: onCloseNotification, delay ms after the last tick
P_closeNotification(delay) ==
  /\ P_page = "live"
  /\ P_notification # NULL
  /\ P_now' = P_now + delay
  /\ P_notification' = NULL
  /\ UNCHANGED <<P_page, P_isSessionActive, P_currentAngle, P_postureStatus,
                 P_liveData, P_sessionHistory, P_badPostureStartTime,
                 P_lastWarnAt>>

\* Notification Logic: the notification after a sample of newStatus at timestamp
P_notify(newStatus, timestamp) ==
  IF newStatus = P_STATUS.BAD.label
  THEN IF /\ P_badPostureStartTime # NoTime
          /\ timestamp - P_badPostureStartTime > P_NOTIFY_DURATION_MS
          /\ P_notification = NULL
       THEN "alert" ELSE P_notification
  ELSE IF /\ P_badPostureStartTime # NoTime
          /\ timestamp - P_badPostureStartTime > P_REINFORCE_MS
          /\ P_notification = NULL
       THEN "success" ELSE P_notification

\* Notification Logic: badPostureStartTime after the sample
P_badStart(newStatus, timestamp) ==
  IF newStatus = P_STATUS.BAD.label
  THEN IF P_badPostureStartTime = NoTime THEN timestamp ELSE P_badPostureStartTime
  ELSE NoTime

\* the setInterval callback: one simulated sample
P_sample(newAngle) ==
  LET timestamp == P_now + P_TICK_MS
      newStatus == P_getStatusFromAngle(newAngle)
      newDataPoint == [t |-> timestamp, angle |-> newAngle, status |-> newStatus]
      raised == P_notify(newStatus, timestamp)
  IN /\ P_isSessionActive
     /\ P_now' = timestamp
     /\ P_currentAngle' = newAngle
     /\ P_postureStatus' = newStatus
     /\ P_liveData' = Append(LastN(P_liveData, P_LIVE_WINDOW), newDataPoint)
     /\ P_sessionHistory' = Append(P_sessionHistory, newDataPoint)
     /\ P_notification' = raised
     /\ P_badPostureStartTime' = P_badStart(newStatus, timestamp)
     /\ P_lastWarnAt' = IF raised = "alert" /\ P_notification # "alert"
                        THEN timestamp ELSE P_lastWarnAt
     /\ UNCHANGED <<P_page, P_isSessionActive>>

\* the interval fires, within the session time that is followed
P_tick(newAngle) ==
  /\ P_now + P_TICK_MS <= MaxClockSec * P_TICK_MS
  /\ P_sample(newAngle)

\* Array.prototype.sort((a, b) => Math.abs(b.angle) - Math.abs(a.angle)) is
\* stable: p goes behind every point whose |angle| is not smaller
P_insertByAngle(sorted, p) ==
  LET k == Cardinality({i \in 1 .. Len(sorted) :
                          Abs(sorted[i].angle) >= Abs(p.angle)})
  IN SubSeq(sorted, 1, k) \o <<p>> \o SubSeq(sorted, k + 1, Len(sorted))

RECURSIVE P_sortByAngle(_)
P_sortByAngle(points) ==
  IF points = <<>> THEN <<>>
  ELSE P_insertByAngle(P_sortByAngle(SubSeq(points, 1, Len(points) - 1)),
                       points[Len(points)])

\* the first n elements of s (Array.prototype.slice(0, n))
FirstN(s, n) == IF Len(s) <= n THEN s ELSE SubSeq(s, 1, n)

\* points of history with the status label
P_withStatus(history, label) ==
  SelectSeq(history, LAMBDA p : p.status = label)

\* new Date(p.t).toLocaleTimeString(): the time of day to the second
P_toLocaleTimeString(t) == t \div 1000

\* SummaryScreen: stats of a session history
P_summaryStats(history) ==
  IF Len(history) = 0
  THEN [totalTime |-> 0, goodTime |-> 0, mildTime |-> 0, badTime |-> 0,
        topBadMoments |-> <<>>]
  ELSE LET bad == Len(P_withStatus(history, P_STATUS.BAD.label))
           mild == Len(P_withStatus(history, P_STATUS.MILD.label))
           top == FirstN(P_sortByAngle(P_withStatus(history, P_STATUS.BAD.label)),
                         P_TOP_MOMENTS)
       IN [totalTime |-> Len(history),
           goodTime |-> Len(history) - bad - mild,
           mildTime |-> mild,
           badTime |-> bad,
           topBadMoments |->
             [i \in 1 .. Len(top) |->
                [time |-> P_toLocaleTimeString(top[i].t), angle |-> top[i].angle]]]

\* what PosturePal leaves alone: the other programs
P_Others ==
  UNCHANGED <<c_vars, B_vars, F_vars, F_bleVars, A_vars, E_vars, A_sessVars>>

P_Next ==
  \/ (\E page \in P_Pages : P_setPage(page)) /\ P_Others
  \/ P_handleToggleSession /\ P_Others
  \/ (\E delay \in P_CloseDelays : P_closeNotification(delay)) /\ P_Others
  \/ (\E newAngle \in P_Angles : P_tick(newAngle)) /\ P_Others

(***************************************************************************)
(* part_000 Flutter app: _LiveScreenState and DatabaseService.  Database   *)
(* calls complete in the order they were issued (sqflite runs them one at  *)
(* a time); the code that follows an await runs when its call completes.   *)
(* Angles are in tenths of a degree, days are numbered from 1.  The chart  *)
(* list _realtimeData is kept; average_angle is truncated to a tenth.      *)
(***************************************************************************)
F_REALTIME_WINDOW == 30
F_INITIAL_ANGLE == 52           \* _currentAngle = 5.2

\* pitch values (tenths) of the readings the device sends: a mild and a bad
\* one; the angle the screen starts with is a good one
F_Pitches == {150, -250}

\* the calendar days the app runs over
F_Days == {1, 2}

F_NoStats ==
  [totalDuration |-> 0, goodPostureTime |-> 0, badPostureTime |-> 0,
   averageAngle |-> 0, worstAngle |-> 0]

\* no row of daily_summaries for a date
F_NoRow ==
  [exists |-> FALSE, total_sessions |-> 0, total_duration |-> 0,
   good_posture_time |-> 0, bad_posture_time |-> 0, average_bad_minutes |-> 0]

\* a database call in flight, with what its continuation holds
F_call(kind, id, stats, date, existing, pitch) ==
  [kind |-> kind, id |-> id, stats |-> stats, date |-> date,
   existing |-> existing, pitch |-> pitch]

F_pending(kind) == {i \in 1 .. Len(F_dbQueue) : F_dbQueue[i].kind = kind}

F_Init ==
  /\ F_listening = FALSE
  /\ F_isSessionActive = FALSE
  /\ F_currentAngle = F_INITIAL_ANGLE
  /\ F_postureStatus = "good"
  /\ F_sessionTime = 0
  /\ F_realtimeData = <<>>
  /\ F_currentSessionId = 0
  /\ F_goodPostureSeconds = 0
  /\ F_badPostureSeconds = 0
  /\ F_totalAngle = 0
  /\ F_worstAngle = 0
  /\ F_angleCount = 0
  /\ F_sessionTimer = 0
  /\ F_timers = {}
  /\ F_otherSeconds = 0
  /\ F_sessions = <<>>
  /\ F_readings = <<>>
  /\ F_daily = [d \in F_Days |-> F_NoRow]
  /\ F_dbQueue = <<>>
  /\ F_today = 1

\* the calendar day changes
F_midnight ==
  /\ F_today + 1 \in F_Days
  /\ F_today' = F_today + 1
  /\ UNCHANGED <<F_uiVars, F_sessions, F_readings, F_daily, F_dbQueue>>

\* initState -> _connectBluetooth: the dataStream listener is subscribed
F_connectBluetooth ==
  /\ ~F_listening
  /\ F_listening' = TRUE
  /\ UNCHANGED <<F_isSessionActive, F_currentAngle, F_postureStatus,
                 F_sessionTime, F_realtimeData, F_currentSessionId,
                 F_goodPostureSeconds, F_badPostureSeconds, F_totalAngle,
                 F_worstAngle, F_angleCount, F_sessionTimer, F_timers,
                 F_otherSeconds, F_dbVars>>

\* _realtimeData.add(..) and removeAt(0) beyond 30 entries
F_addRealtime(data, point) ==
  IF Len(data) + 1 > F_REALTIME_WINDOW THEN Tail(Append(data, point))
  ELSE Append(data, point)

\* the dataStream listener of _connectBluetooth; the SnackBar it may show on
\* a bad reading is no state of the screen
F_onReading(pitch) ==
  /\ F_listening
  /\ F_isSessionActive
  /\ Len(F_dbQueue) < MaxQueue
  /\ Len(F_readings) + Cardinality(F_pending("insertReading")) < MaxReadings
  /\ F_currentAngle' = pitch
  /\ F_postureStatus' = F_getPostureStatus(pitch)
  /\ F_realtimeData' =
       F_addRealtime(F_realtimeData, [time |-> F_sessionTime, angle |-> pitch])
  /\ F_dbQueue' =
       IF F_currentSessionId # 0
       THEN Append(F_dbQueue, F_call("insertReading", F_currentSessionId,
                                     F_NoStats, 0, F_NoRow, pitch))
       ELSE F_dbQueue
  /\ UNCHANGED <<F_listening, F_isSessionActive, F_sessionTime,
                 F_currentSessionId, F_goodPostureSeconds, F_badPostureSeconds,
                 F_totalAngle, F_worstAngle, F_angleCount, F_sessionTimer,
                 F_timers, F_otherSeconds, F_sessions, F_readings, F_daily,
                 F_today>>

\* _startSession up to its await: createSession is issued.  The Start
\* button is shown while _isSessionActive is false
F_pressStart ==
  /\ ~F_isSessionActive
  /\ Len(F_dbQueue) < MaxQueue
  /\ F_dbQueue' = Append(F_dbQueue,
                         F_call("createSession", 0, F_NoStats, 0, F_NoRow, 0))
  /\ UNCHANGED <<F_uiVars, F_sessions, F_readings, F_daily, F_today>>

\* sessions created or being created
F_started == Len(F_sessions) + Cardinality(F_pending("createSession"))

F_startSession ==
  /\ F_started < MaxSessions
  /\ F_pressStart

\* createSession completes; _startSession resets the record, starts the timer
F_dbCreateSession ==
  /\ F_dbQueue # <<>> /\ Head(F_dbQueue).kind = "createSession"
  /\ LET id == Len(F_sessions) + 1 IN
       /\ F_sessions' = Append(F_sessions,
            [start_day |-> F_today, end_day |-> 0, total_duration |-> 0,
             good_posture_time |-> 0, bad_posture_time |-> 0,
             average_angle |-> 0, worst_angle |-> 0, is_active |-> 1])
       /\ F_currentSessionId' = id
       /\ F_sessionTimer' = id
       /\ F_timers' = F_timers \cup {id}
  /\ F_dbQueue' = Tail(F_dbQueue)
  /\ F_isSessionActive' = TRUE
  /\ F_sessionTime' = 0
  /\ F_realtimeData' = <<>>
  /\ F_goodPostureSeconds' = 0
  /\ F_badPostureSeconds' = 0
  /\ F_totalAngle' = 0
  /\ F_worstAngle' = 0
  /\ F_angleCount' = 0
  /\ F_otherSeconds' = 0
  /\ UNCHANGED <<F_listening, F_currentAngle, F_postureStatus, F_readings, F_daily, F_today>>

\* a wrong tick, for C7: the second is credited whatever the status is
C7_creditEveryTick(matches, seconds) == seconds + 1

\* _goodPostureSeconds++ / _badPostureSeconds++ under its condition
F_creditSecond(matches, seconds) == IF matches THEN seconds + 1 ELSE seconds

\* the callback of Timer.periodic(1 s) created by _startSession
F_timerTick(timer) ==
  /\ timer \in F_timers
  /\ F_sessionTime < MaxSessionTime
  /\ F_sessionTime' = F_sessionTime + 1
  /\ F_goodPostureSeconds' =
       F_creditSecond(F_postureStatus = "good", F_goodPostureSeconds)
  /\ F_badPostureSeconds' =
       F_creditSecond(F_postureStatus # "good" /\ F_postureStatus = "bad",
                      F_badPostureSeconds)
  /\ F_otherSeconds' =
       IF F_postureStatus # "good" /\ F_postureStatus # "bad"
       THEN F_otherSeconds + 1 ELSE F_otherSeconds
  /\ F_totalAngle' = F_totalAngle + Abs(F_currentAngle)
  /\ F_angleCount' = F_angleCount + 1
  /\ F_worstAngle' = IF Abs(F_currentAngle) > F_worstAngle
                     THEN Abs(F_currentAngle) ELSE F_worstAngle
  /\ UNCHANGED <<F_listening, F_isSessionActive, F_currentAngle,
                 F_postureStatus, F_realtimeData, F_currentSessionId,
                 F_sessionTimer, F_timers, F_dbVars>>

\* the SessionStats _stopSession builds
F_sessionStats ==
  [totalDuration |-> F_sessionTime,
   goodPostureTime |-> F_goodPostureSeconds,
   badPostureTime |-> F_badPostureSeconds,
   averageAngle |-> IF F_angleCount > 0 THEN F_totalAngle \div F_angleCount ELSE 0,
   worstAngle |-> F_worstAngle]

\* _stopSession up to its await: the timer is cancelled, endSession issued
F_stopSession ==
  /\ F_isSessionActive
  /\ Len(F_dbQueue) < MaxQueue
  /\ F_timers' = F_timers \ {F_sessionTimer}
  /\ IF F_currentSessionId # 0
     THEN /\ F_dbQueue' = Append(F_dbQueue,
                 F_call("endSession", F_currentSessionId, F_sessionStats, 0,
                        F_NoRow, 0))
          /\ UNCHANGED F_isSessionActive
     ELSE /\ F_isSessionActive' = FALSE
          /\ UNCHANGED F_dbQueue
  /\ UNCHANGED <<F_listening, F_currentAngle, F_postureStatus, F_sessionTime,
                 F_realtimeData, F_currentSessionId, F_goodPostureSeconds,
                 F_badPostureSeconds, F_totalAngle, F_worstAngle, F_angleCount,
                 F_sessionTimer, F_otherSeconds, F_sessions,
                 F_readings, F_daily, F_today>>

\* endSession: the sessions row is sealed; _updateDailySummary issues its query
F_dbEndSession ==
  /\ F_dbQueue # <<>> /\ Head(F_dbQueue).kind = "endSession"
  /\ LET call == Head(F_dbQueue) IN
       /\ F_sessions' = [F_sessions EXCEPT ![call.id] =
            [@ EXCEPT !.end_day = F_today,
                      !.total_duration = call.stats.totalDuration,
                      !.good_posture_time = call.stats.goodPostureTime,
                      !.bad_posture_time = call.stats.badPostureTime,
                      !.average_angle = call.stats.averageAngle,
                      !.worst_angle = call.stats.worstAngle,
                      !.is_active = 0]]
       /\ F_dbQueue' = Append(Tail(F_dbQueue),
            F_call("summaryQuery", call.id, call.stats, F_today, F_NoRow, 0))
  /\ UNCHANGED <<F_uiVars, F_readings, F_daily, F_today>>

\* _updateDailySummary: the query completes, the insert or update is issued
F_dbSummaryQuery ==
  /\ F_dbQueue # <<>> /\ Head(F_dbQueue).kind = "summaryQuery"
  /\ LET call == Head(F_dbQueue)
         existing == F_daily[call.date]
     IN F_dbQueue' = Append(Tail(F_dbQueue),
          F_call(IF existing.exists THEN "summaryUpdate" ELSE "summaryInsert",
                 call.id, call.stats, call.date, existing, 0))
  /\ UNCHANGED <<F_uiVars, F_sessions, F_readings, F_daily, F_today>>

\* _updateDailySummary, existing.isEmpty: db.insert; date is UNIQUE, so a
\* second insert for the date throws and _stopSession never reaches setState
F_dbSummaryInsert ==
  /\ F_dbQueue # <<>> /\ Head(F_dbQueue).kind = "summaryInsert"
  /\ LET call == Head(F_dbQueue) IN
       IF F_daily[call.date].exists
       THEN UNCHANGED <<F_daily, F_isSessionActive>>
       ELSE /\ F_daily' = [F_daily EXCEPT ![call.date] =
                 [exists |-> TRUE, total_sessions |-> 1,
                  total_duration |-> call.stats.totalDuration,
                  good_posture_time |-> call.stats.goodPostureTime,
                  bad_posture_time |-> call.stats.badPostureTime,
                  average_bad_minutes |-> call.stats.badPostureTime \div 60]]
            /\ F_isSessionActive' = FALSE
  /\ F_dbQueue' = Tail(F_dbQueue)
  /\ UNCHANGED <<F_listening, F_currentAngle, F_postureStatus, F_sessionTime,
                 F_realtimeData, F_currentSessionId, F_goodPostureSeconds,
                 F_badPostureSeconds, F_totalAngle, F_worstAngle, F_angleCount,
                 F_sessionTimer, F_timers, F_otherSeconds,
                 F_sessions, F_readings, F_today>>

\* a wrong update, for C12: the row is overwritten with the session's values
C12_overwriteSummary ==
  /\ F_dbQueue # <<>> /\ Head(F_dbQueue).kind = "summaryUpdate"
  /\ LET call == Head(F_dbQueue) IN
       F_daily' = [F_daily EXCEPT ![call.date] =
         [exists |-> TRUE, total_sessions |-> 1,
          total_duration |-> call.stats.totalDuration,
          good_posture_time |-> call.stats.goodPostureTime,
          bad_posture_time |-> call.stats.badPostureTime,
          average_bad_minutes |-> call.stats.badPostureTime \div 60]]
  /\ F_isSessionActive' = FALSE
  /\ F_dbQueue' = Tail(F_dbQueue)
  /\ UNCHANGED <<F_listening, F_currentAngle, F_postureStatus, F_sessionTime,
                 F_realtimeData, F_currentSessionId, F_goodPostureSeconds,
                 F_badPostureSeconds, F_totalAngle, F_worstAngle, F_angleCount,
                 F_sessionTimer, F_timers, F_otherSeconds,
                 F_sessions, F_readings, F_today>>

\* _updateDailySummary, a row exists: db.update from the row that was read
F_dbSummaryUpdate ==
  /\ F_dbQueue # <<>> /\ Head(F_dbQueue).kind = "summaryUpdate"
  /\ LET call == Head(F_dbQueue)
         summary == call.existing
     IN F_daily' = [F_daily EXCEPT ![call.date] =
          [exists |-> TRUE,
           total_sessions |-> summary.total_sessions + 1,
           total_duration |-> summary.total_duration + call.stats.totalDuration,
           good_posture_time |->
             summary.good_posture_time + call.stats.goodPostureTime,
           bad_posture_time |->
             summary.bad_posture_time + call.stats.badPostureTime,
           average_bad_minutes |->
             (summary.bad_posture_time + call.stats.badPostureTime) \div 60]]
  /\ F_isSessionActive' = FALSE
  /\ F_dbQueue' = Tail(F_dbQueue)
  /\ UNCHANGED <<F_listening, F_currentAngle, F_postureStatus, F_sessionTime,
                 F_realtimeData, F_currentSessionId, F_goodPostureSeconds,
                 F_badPostureSeconds, F_totalAngle, F_worstAngle, F_angleCount,
                 F_sessionTimer, F_timers, F_otherSeconds,
                 F_sessions, F_readings, F_today>>

\* insertReading completes
F_dbInsertReading ==
  /\ F_dbQueue # <<>> /\ Head(F_dbQueue).kind = "insertReading"
  /\ LET call == Head(F_dbQueue) IN
       F_readings' = Append(F_readings,
         [session_id |-> call.id, pitch |-> call.pitch,
          posture_status |-> F_getPostureStatus(call.pitch)])
  /\ F_dbQueue' = Tail(F_dbQueue)
  /\ UNCHANGED <<F_uiVars, F_sessions, F_daily, F_today>>

\* what the Flutter screen and database leave alone: the other programs, and
\* the Bluetooth layer (readings reach the listener as F_onReading)
F_Others ==
  UNCHANGED <<c_vars, B_vars, P_vars, F_bleVars, A_vars, E_vars, A_sessVars>>

F_Next ==
  \/ F_midnight /\ F_Others
  \/ F_connectBluetooth /\ F_Others
  \/ (\E pitch \in F_Pitches : F_onReading(pitch)) /\ F_Others
  \/ F_startSession /\ F_Others
  \/ F_dbCreateSession /\ F_Others
  \/ (\E timer \in F_timers : F_timerTick(timer)) /\ F_Others
  \/ F_stopSession /\ F_Others
  \/ F_dbEndSession /\ F_Others
  \/ F_dbSummaryQuery /\ F_Others
  \/ F_dbSummaryInsert /\ F_Others
  \/ F_dbSummaryUpdate /\ F_Others
  \/ F_dbInsertReading /\ F_Others

(***************************************************************************)
(* part_000 BluetoothService, and the Flutter app with it.  The singleton  *)
(* keeps one handle per kind of subscription and overwrites it without     *)
(* cancelling; a listener that is not cancelled keeps receiving.           *)
(***************************************************************************)
F_bleInit ==
  /\ F_scanListeners = 0
  /\ F_scanning = FALSE
  /\ F_subscriptions = 0
  /\ F_emitted = 0
  /\ F_delivering = <<>>

\* BluetoothService.startScan: scanResults.listen(..), the handle overwritten
F_startScan ==
  /\ F_scanListeners < MaxScans
  /\ F_scanListeners' = F_scanListeners + 1
  /\ F_scanning' = TRUE
  /\ UNCHANGED <<F_subscriptions, F_emitted, F_delivering>>

\* the scan reports the ESP32: every scanResults listener calls
\* connectToDevice, which listens on lastValueStream; stopScan
F_scanResult ==
  /\ F_scanning
  /\ F_scanning' = FALSE
  /\ F_subscriptions' = F_subscriptions + F_scanListeners
  /\ UNCHANGED <<F_scanListeners, F_emitted, F_delivering>>

\* n copies of x
F_copies(n, x) == [i \in 1 .. n |-> x]

\* the device notifies a value: every lastValueStream listener runs
\* _handleIncomingData, which adds a reading to the broadcast dataStream
F_deviceNotify(pitch) ==
  /\ F_subscriptions > 0
  /\ F_emitted < MaxEmitted
  /\ F_emitted' = F_emitted + 1
  /\ F_delivering' = F_delivering \o
       F_copies(F_subscriptions, [seq |-> F_emitted + 1, pitch |-> pitch])
  /\ UNCHANGED <<F_scanListeners, F_scanning, F_subscriptions>>

\* dataStream delivers its oldest reading to the listener of _connectBluetooth
F_deliver ==
  /\ F_delivering # <<>>
  /\ F_delivering' = Tail(F_delivering)
  /\ IF F_listening /\ F_isSessionActive
     THEN F_onReading(Head(F_delivering).pitch)
     ELSE UNCHANGED F_vars
  /\ UNCHANGED <<F_scanListeners, F_scanning, F_subscriptions, F_emitted>>

\* the programs the Flutter app does not touch
F_Rest == UNCHANGED <<c_vars, B_vars, P_vars, A_vars, E_vars, A_sessVars>>

\* the Flutter app with its Bluetooth layer: initState scans and subscribes,
\* the Settings screen's button scans again, Start can be pressed again
\* before createSession has answered
F_BleNext ==
  \/ F_connectBluetooth /\ F_startScan /\ F_Rest
  \/ F_startScan /\ F_listening /\ UNCHANGED F_vars /\ F_Rest
  \/ F_scanResult /\ UNCHANGED F_vars /\ F_Rest
  \/ (\E pitch \in F_Pitches : F_deviceNotify(pitch)) /\ UNCHANGED F_vars /\ F_Rest
  \/ F_deliver /\ F_Rest
  \/ F_pressStart /\ F_started < MaxStarts /\ F_Others
  \/ F_dbCreateSession /\ F_Others
  \/ (\E timer \in F_timers : F_timerTick(timer)) /\ F_Others
  \/ F_stopSession /\ F_Others
  \/ F_dbEndSession /\ F_Others
  \/ F_dbSummaryQuery /\ F_Others
  \/ F_dbSummaryInsert /\ F_Others
  \/ F_dbSummaryUpdate /\ F_Others
  \/ F_dbInsertReading /\ F_Others

(***************************************************************************)
(* App.js dashboard: the configuration tab.  Every change of settings is   *)
(* written to localStorage by the 'Save settings on change' effect, and    *)
(* read back when the page is loaded.                                      *)
(***************************************************************************)
\* positions the three ThresholdSliders are moved to (min 1; max 15, 30, 45)
A_ExcellentChoices == {1, 5, 10, 15}
A_GoodChoices == {1, 10, 15, 30}
A_FairChoices == {1, 15, 25, 45}

\* positions of the Sensitivity slider (0.01 .. 0.5), in hundredths
A_AlphaChoices == {1, 15, 50}

A_Init ==
  /\ A_settings = A_DEFAULT_SETTINGS
  /\ A_storage = A_DEFAULT_SETTINGS
  /\ A_notification = NULL
  /\ A_clearTimers = 0

\* setSettings(..) and the effect that saves the settings
A_setSettings(settings) ==
  /\ A_settings' = settings
  /\ A_storage' = settings

\* ThresholdSlider 'Excellent Zone': onChange
A_setExcellentThreshold(v) ==
  /\ A_setSettings([A_settings EXCEPT !.excellentThreshold = v])
  /\ UNCHANGED <<A_notification, A_clearTimers>>

\* ThresholdSlider 'Good Zone': onChange
A_setGoodThreshold(v) ==
  /\ A_setSettings([A_settings EXCEPT !.goodThreshold = v])
  /\ UNCHANGED <<A_notification, A_clearTimers>>

\* ThresholdSlider 'Fair Zone': onChange
A_setFairThreshold(v) ==
  /\ A_setSettings([A_settings EXCEPT !.fairThreshold = v])
  /\ UNCHANGED <<A_notification, A_clearTimers>>

\* Sensitivity slider: onChange
A_setSmoothingAlpha(alpha100) ==
  /\ A_setSettings([A_settings EXCEPT !.smoothingAlpha100 = alpha100])
  /\ UNCHANGED <<A_notification, A_clearTimers>>

\* 'Reset to Defaults': setSettings(DEFAULT_SETTINGS), showNotification
A_resetSettings ==
  /\ A_clearTimers < MaxTimers
  /\ A_setSettings(A_DEFAULT_SETTINGS)
  /\ A_notification' = "success"
  /\ A_clearTimers' = A_clearTimers + 1

\* a timeout of showNotification fires: setNotification(null)
A_notificationTimeout ==
  /\ A_clearTimers > 0
  /\ A_clearTimers' = A_clearTimers - 1
  /\ A_notification' = NULL
  /\ UNCHANGED <<A_settings, A_storage>>

\* the page is loaded again: useState(() => JSON.parse(saved))
A_reload ==
  /\ A_settings' = A_storage
  /\ A_notification' = NULL
  /\ A_clearTimers' = 0
  /\ UNCHANGED A_storage

\* what the configuration tab leaves alone: the other programs
A_Others ==
  UNCHANGED <<c_vars, B_vars, P_vars, F_vars, F_bleVars, E_vars, A_sessVars>>

A_Next ==
  \/ (\E v \in A_ExcellentChoices : A_setExcellentThreshold(v)) /\ A_Others
  \/ (\E v \in A_GoodChoices : A_setGoodThreshold(v)) /\ A_Others
  \/ (\E v \in A_FairChoices : A_setFairThreshold(v)) /\ A_Others
  \/ (\E alpha100 \in A_AlphaChoices : A_setSmoothingAlpha(alpha100)) /\ A_Others
  \/ A_resetSettings /\ A_Others
  \/ A_notificationTimeout /\ A_Others
  \/ A_reload /\ A_Others

(***************************************************************************)
(* App.js dashboard: connection, session and the three intervals.  Time    *)
(* advances when an interval fires; the interval that is due first fires   *)
(* first.  An effect runs again when one of its dependencies has changed:  *)
(* its old interval is cleared and, if its condition holds, a new one is   *)
(* started at that moment.  pollESP is followed from the tick to the end   *)
(* of its response.                                                        *)
(***************************************************************************)
A_POLL_INTERVAL == 200          \* DEFAULT_SETTINGS.pollInterval
A_SECOND == 1000                \* setInterval(.., 1000)
A_LIVE_WINDOW == 100            \* liveData keeps prev.slice(-100)
A_STREAK_NOTIFY == 60           \* newStreak % 60 === 0

\* raw angles (tenths) the device may answer with
A_RawAngles == {40, 400}

A_sessInit ==
  /\ A_isConnected = FALSE
  /\ A_isActive = FALSE
  /\ A_currentAngle = 0
  /\ A_liveData = <<>>
  /\ A_sessionData = <<>>
  /\ A_streak = 0
  /\ A_elapsedTime = 0
  /\ A_lastSmoothedRef = 0
  /\ A_sessionStartTimeRef = NoTime
  /\ A_now = 0
  /\ A_pollDue = NoTime
  /\ A_streakDue = NoTime
  /\ A_elapsedDue = NoTime
  /\ A_goodSince = NoTime

\* smooth(prev, next, alpha) followed by Number(..toFixed(1)), in tenths
A_smooth(prev, next, alpha100) ==
  RoundDiv(prev * (100 - alpha100) + next * alpha100, 100)

\* ['Excellent', 'Good'].includes(getStatus(angle).label)
A_isGood(angle) ==
  A_getStatus(angle, A_settings) \in {"Excellent", "Good"}

\* a showNotification that shows every notification as a success
C28_notifySuccess(type) ==
  /\ A_clearTimers < MaxTimers
  /\ A_notification' = "success"
  /\ A_clearTimers' = A_clearTimers + 1

\* showNotification(type, ..)
A_showNotification(type) ==
  /\ A_clearTimers < MaxTimers
  /\ A_notification' = type
  /\ A_clearTimers' = A_clearTimers + 1

\* the interval due at time due is the next one to fire
A_firesNext(due) ==
  /\ due # NoTime
  /\ due <= MaxAppTicks * A_POLL_INTERVAL
  /\ \A other \in {A_pollDue, A_streakDue, A_elapsedDue} :
       other # NoTime => due <= other

\* Polling Loop effect, run at time now: when its interval fires next
A_pollingEffect(active, connected, now) ==
  IF ~active /\ ~connected THEN NoTime ELSE now + A_POLL_INTERVAL

\* Polling Loop effect after a render in which isActive or isConnected may
\* have changed
A_pollingAfter(active, connected) ==
  A_pollDue' = IF active = A_isActive /\ connected = A_isConnected THEN A_pollDue
               ELSE A_pollingEffect(active, connected, A_now)

\* Streak Timer effect, run at time now with the streak it finds
A_streakEffect(active, angle, now, streak) ==
  IF active /\ A_isGood(angle)
  THEN /\ A_streakDue' = now + A_SECOND
       /\ A_streak' = streak
  ELSE /\ A_streakDue' = NoTime
       /\ A_streak' = 0

\* history: since when isActive holds with an Excellent or Good currentAngle
A_goodSinceAfter(active, angle, now) ==
  A_goodSince' =
    IF active /\ A_isGood(angle)
    THEN IF A_isActive /\ A_isGood(A_currentAngle) THEN A_goodSince ELSE now
    ELSE NoTime

\* connectToESP, response.ok
A_connectOk ==
  /\ A_isConnected' = TRUE
  /\ A_showNotification("success")
  /\ A_pollingAfter(A_isActive, TRUE)
  /\ UNCHANGED <<A_isActive, A_currentAngle, A_liveData, A_sessionData, A_streak,
                 A_elapsedTime, A_lastSmoothedRef, A_sessionStartTimeRef, A_now,
                 A_streakDue, A_elapsedDue, A_goodSince, A_settings, A_storage>>

\* connectToESP, fetch throws or the response is not ok
A_connectFails ==
  /\ A_isConnected' = FALSE
  /\ A_pollingAfter(A_isActive, FALSE)
  /\ UNCHANGED <<A_isActive, A_currentAngle, A_liveData, A_sessionData, A_streak,
                 A_elapsedTime, A_lastSmoothedRef, A_sessionStartTimeRef, A_now,
                 A_streakDue, A_elapsedDue, A_goodSince, A_vars>>

\* toggleSession and the effects that follow the render
A_toggleSession ==
  IF ~A_isActive THEN
    IF ~A_isConnected THEN
      /\ A_showNotification("error")
      /\ UNCHANGED <<A_sessVars, A_settings, A_storage>>
    ELSE
      /\ A_isActive' = TRUE
      /\ A_sessionData' = <<>>
      /\ A_liveData' = <<>>
      /\ A_elapsedTime' = 0
      /\ A_sessionStartTimeRef' = A_now
      /\ A_elapsedDue' = A_now + A_SECOND
      /\ A_pollingAfter(TRUE, A_isConnected)
      /\ A_streakEffect(TRUE, A_currentAngle, A_now, 0)
      /\ A_goodSinceAfter(TRUE, A_currentAngle, A_now)
      /\ UNCHANGED <<A_isConnected, A_currentAngle, A_lastSmoothedRef, A_now,
                     A_vars>>
  ELSE
    /\ A_isActive' = FALSE
    /\ A_showNotification("achievement")
    /\ A_sessionStartTimeRef' = NoTime
    /\ A_elapsedDue' = NoTime
    /\ A_pollingAfter(FALSE, A_isConnected)
    /\ A_streakEffect(FALSE, A_currentAngle, A_now, A_streak)
    /\ A_goodSinceAfter(FALSE, A_currentAngle, A_now)
    /\ UNCHANGED <<A_isConnected, A_currentAngle, A_liveData, A_sessionData,
                   A_elapsedTime, A_lastSmoothedRef, A_now, A_settings,
                   A_storage>>

\* pollESP with response.ok at time now: smooth, setCurrentAngle, record,
\* and the Streak Timer effect if currentAngle has changed
A_pollOk(raw, now) ==
  LET smoothed == A_smooth(A_lastSmoothedRef, raw, A_settings.smoothingAlpha100)
      point == [t |-> now, angle |-> smoothed,
                status |-> A_getStatus(smoothed, A_settings)]
  IN /\ A_lastSmoothedRef' = smoothed
     /\ A_currentAngle' = smoothed
     /\ A_liveData' = IF A_isActive
                      THEN Append(LastN(A_liveData, A_LIVE_WINDOW), point)
                      ELSE A_liveData
     /\ A_sessionData' = IF A_isActive THEN Append(A_sessionData, point)
                         ELSE A_sessionData
     /\ IF smoothed # A_currentAngle
        THEN A_streakEffect(A_isActive, smoothed, now, A_streak)
        ELSE UNCHANGED <<A_streakDue, A_streak>>
     /\ A_goodSinceAfter(A_isActive, smoothed, now)
     /\ UNCHANGED A_isConnected

\* a failed poll that drops the connection
C29_dropConnection ==
  /\ A_isConnected' = FALSE
  /\ UNCHANGED <<A_currentAngle, A_lastSmoothedRef, A_liveData, A_sessionData,
                 A_streak, A_streakDue, A_goodSince>>

\* pollESP whose fetch throws or whose response is not ok
A_pollFailed ==
  UNCHANGED <<A_isConnected, A_currentAngle, A_lastSmoothedRef, A_liveData,
              A_sessionData, A_streak, A_streakDue, A_goodSince>>

\* the polling interval fires: pollESP
A_pollTick(ok, raw) ==
  /\ A_firesNext(A_pollDue)
  /\ A_now' = A_pollDue
  /\ A_pollDue' = A_pollDue + A_POLL_INTERVAL
  /\ IF A_isConnected /\ ok THEN A_pollOk(raw, A_pollDue) ELSE A_pollFailed
  /\ UNCHANGED <<A_isActive, A_elapsedTime, A_sessionStartTimeRef, A_elapsedDue,
                 A_vars>>

\* the streak interval fires
A_streakTick ==
  LET newStreak == A_streak + 1
  IN /\ A_firesNext(A_streakDue)
     /\ A_now' = A_streakDue
     /\ A_streakDue' = A_streakDue + A_SECOND
     /\ A_streak' = newStreak
     /\ IF newStreak % A_STREAK_NOTIFY = 0 THEN A_showNotification("achievement")
        ELSE UNCHANGED <<A_notification, A_clearTimers>>
     /\ UNCHANGED <<A_isConnected, A_isActive, A_currentAngle, A_liveData,
                    A_sessionData, A_elapsedTime, A_lastSmoothedRef,
                    A_sessionStartTimeRef, A_pollDue, A_elapsedDue, A_goodSince,
                    A_settings, A_storage>>

\* the interval of the Timer effect fires
A_elapsedTick ==
  /\ A_firesNext(A_elapsedDue)
  /\ A_now' = A_elapsedDue
  /\ A_elapsedDue' = A_elapsedDue + A_SECOND
  /\ A_elapsedTime' = (A_elapsedDue - A_sessionStartTimeRef) \div A_SECOND
  /\ UNCHANGED <<A_isConnected, A_isActive, A_currentAngle, A_liveData,
                 A_sessionData, A_streak, A_lastSmoothedRef,
                 A_sessionStartTimeRef, A_pollDue, A_streakDue, A_goodSince,
                 A_vars>>

\* what the dashboard leaves alone: the other programs
A_sessOthers == UNCHANGED <<c_vars, B_vars, P_vars, F_vars, F_bleVars, E_vars>>

A_SessionNext ==
  \/ A_connectOk /\ A_sessOthers
  \/ A_connectFails /\ A_sessOthers
  \/ A_toggleSession /\ A_sessOthers
  \/ (\E raw \in A_RawAngles : A_pollTick(TRUE, raw)) /\ A_sessOthers
  \/ A_pollTick(FALSE, 0) /\ A_sessOthers
  \/ A_streakTick /\ A_sessOthers
  \/ A_elapsedTick /\ A_sessOthers
  \/ A_notificationTimeout /\ A_Others

(***************************************************************************)
(* part_000, ESP32 firmware.  The float angles are kept in milliradians    *)
(* and, after RAD_TO_DEG, in tenths of a degree; dt is kept in             *)
(* microseconds.  unsigned long is 32 bits wide on the ESP32 and is kept   *)
(* as [hi, lo], two 16-bit halves.  setup() runs once; every E_loop is one *)
(* call of loop().                                                         *)
(***************************************************************************)
E_HALF == 65536                 \* 2^16: unsigned long is hi * 2^16 + lo
E_COMP_FILTER_COEFF100 == 98    \* COMP_FILTER_COEFF = 0.98
E_RAD_TO_DEG_MILLI == 573       \* RAD_TO_DEG: tenths of a degree per 1000 mrad
E_MOTOR_THRESHOLD == 40         \* degrees

\* what the sensor can report: accelerometer angles (mrad) as atan2 gives
\* them, gyro rates (mrad/s)
E_Samples ==
  { [acc_pitch |-> 0, acc_roll |-> 0, gyro_pitch_rate |-> 0, gyro_roll_rate |-> 0],
    [acc_pitch |-> 0, acc_roll |-> 800, gyro_pitch_rate |-> 0, gyro_roll_rate |-> 0],
    [acc_pitch |-> 0, acc_roll |-> 0, gyro_pitch_rate |-> 0, gyro_roll_rate |-> 8000] }

\* how the sensor lies while calibrateSensor averages: (pitch, roll) in mrad
E_Mountings == { <<0, 0>>, <<0, 800>>, <<0 - 800, 0>> }

\* microseconds between two readings of micros()
E_Elapsed == {2500, 40000}

\* micros() at the end of setup(): after about 3 s, and after WiFi took
\* 71 minutes to connect
E_SetupEnd == { [hi |-> 45, lo |-> 65000], [hi |-> 65535, lo |-> 65000] }

E_Init ==
  /\ E_pc = "setup"
  /\ E_last_time = [hi |-> 0, lo |-> 0]
  /\ E_dt = 0
  /\ E_angle_pitch = 0
  /\ E_angle_roll = 0
  /\ E_pitch_offset = 0
  /\ E_roll_offset = 0
  /\ E_current_angle_for_web = 0
  /\ E_motorPin = "LOW"
  /\ E_loops = 0
  /\ E_pending = FALSE
  /\ E_responses = <<>>

\* the 32-bit counter us microseconds after it read t
E_micros(t, us) ==
  LET lo == t.lo + us
  IN [hi |-> (t.hi + lo \div E_HALF) % E_HALF, lo |-> lo % E_HALF]

\* a 32-bit difference whose low half does not borrow from the high half
C26_noBorrow(current_time, last_time) ==
  ((current_time.hi - last_time.hi) % E_HALF) * E_HALF
    + ((current_time.lo - last_time.lo) % E_HALF)

\* current_time - last_time in unsigned long arithmetic, as a number
E_elapsedMicros(current_time, last_time) ==
  LET lo == current_time.lo - last_time.lo
      borrow == IF lo < 0 THEN 1 ELSE 0
      hi == (current_time.hi - last_time.hi - borrow) % E_HALF
  IN hi * E_HALF + (lo % E_HALF)

\* angle = A * (angle + gyro * dt) + (1 - A) * accel_angle
E_filter(angle, gyro_rate, dt, acc) ==
  LET turned == angle + RoundDiv(gyro_rate * dt, 1000000)
  IN RoundDiv(E_COMP_FILTER_COEFF100 * turned
                + (100 - E_COMP_FILTER_COEFF100) * acc, 100)

\* (angle - offset) * RAD_TO_DEG, in tenths of a degree
E_final(angle, offset) ==
  RoundDiv((angle - offset) * E_RAD_TO_DEG_MILLI, 1000)

\* a threshold check that looks at the roll only
C30_rollOnly(final_roll, final_pitch) ==
  IF Abs(final_roll) > Deg(E_MOTOR_THRESHOLD) THEN "HIGH" ELSE "LOW"

\* the level the threshold check writes to MOTOR_PIN
E_motorLevel(final_roll, final_pitch) ==
  IF Abs(final_roll) > Deg(E_MOTOR_THRESHOLD)
       \/ Abs(final_pitch) > Deg(E_MOTOR_THRESHOLD)
  THEN "HIGH" ELSE "LOW"

\* setup(): mpu.begin() fails and setup never returns
E_setupNoSensor ==
  /\ E_pc = "setup"
  /\ E_pc' = "halted"
  /\ UNCHANGED <<E_last_time, E_dt, E_angle_pitch, E_angle_roll, E_pitch_offset,
                 E_roll_offset, E_current_angle_for_web, E_motorPin, E_loops,
                 E_pending, E_responses>>

\* setup(): sensor found, calibrateSensor, server.begin(), last_time = micros()
E_setup(mounting, now) ==
  /\ E_pc = "setup"
  /\ E_pc' = "loop"
  /\ E_pitch_offset' = mounting[1]
  /\ E_roll_offset' = mounting[2]
  /\ E_last_time' = now
  /\ UNCHANGED <<E_dt, E_angle_pitch, E_angle_roll, E_current_angle_for_web,
                 E_motorPin, E_loops, E_pending, E_responses>>

\* a client's GET /angle reaches the started server
E_request ==
  /\ E_pc = "loop"
  /\ ~E_pending
  /\ Len(E_responses) < MaxRequests
  /\ E_pending' = TRUE
  /\ UNCHANGED <<E_pc, E_last_time, E_dt, E_angle_pitch, E_angle_roll,
                 E_pitch_offset, E_roll_offset, E_current_angle_for_web,
                 E_motorPin, E_loops, E_responses>>

\* server.handleClient() with handleAngle
E_handleClient ==
  /\ E_responses' = IF E_pending THEN Append(E_responses, E_current_angle_for_web)
                    ELSE E_responses
  /\ E_pending' = FALSE

\* one call of loop().  readOk is what the read of the sensor achieved, which
\* loop() does not look at; event is what a and g hold after mpu.getEvent;
\* elapsed is the time since micros() was last read.
E_loop(readOk, event, elapsed) ==
  LET current_time == E_micros(E_last_time, elapsed)
      dt == E_elapsedMicros(current_time, E_last_time)
      pitch == E_filter(E_angle_pitch, event.gyro_pitch_rate, dt, event.acc_pitch)
      roll == E_filter(E_angle_roll, event.gyro_roll_rate, dt, event.acc_roll)
      final_pitch == E_final(pitch, E_pitch_offset)
      final_roll == E_final(roll, E_roll_offset)
  IN /\ E_pc = "loop"
     /\ E_loops < MaxLoops
     /\ E_handleClient
     /\ E_dt' = dt
     /\ E_last_time' = current_time
     /\ E_angle_pitch' = pitch
     /\ E_angle_roll' = roll
     /\ E_current_angle_for_web' = final_roll
     /\ E_motorPin' = E_motorLevel(final_roll, final_pitch)
     /\ E_loops' = E_loops + 1
     /\ UNCHANGED <<E_pc, E_pitch_offset, E_roll_offset>>

\* what the firmware leaves alone: the client programs
E_Others ==
  UNCHANGED <<c_vars, B_vars, P_vars, F_vars, F_bleVars, A_vars, A_sessVars>>

E_Next ==
  \/ E_setupNoSensor /\ E_Others
  \/ (\E mounting \in E_Mountings, now \in E_SetupEnd : E_setup(mounting, now))
       /\ E_Others
  \/ E_request /\ E_Others
  \/ (\E readOk \in BOOLEAN, event \in E_Samples, elapsed \in E_Elapsed :
        E_loop(readOk, event, elapsed)) /\ E_Others

\* the classifier harness at rest (the program specifications)
c_Idle ==
  /\ c_angle = 0
  /\ c_thr = A_DEFAULT_SETTINGS
  /\ c_out = c_None

InitB == c_Idle /\ B_Init /\ P_Init /\ F_Init /\ F_bleInit /\ A_Init
    /\ E_Init /\ A_sessInit

SpecB == InitB /\ [][B_Next]_vars

InitP == c_Idle /\ B_Init /\ P_Init /\ F_Init /\ F_bleInit /\ A_Init
    /\ E_Init /\ A_sessInit

SpecP == InitP /\ [][P_Next]_vars

InitF == c_Idle /\ B_Init /\ P_Init /\ F_Init /\ F_bleInit /\ A_Init
    /\ E_Init /\ A_sessInit

SpecF == InitF /\ [][F_Next]_vars

SpecFBle == InitF /\ [][F_BleNext]_vars

SpecA == InitF /\ [][A_Next]_vars

SpecE == InitF /\ [][E_Next]_vars

SpecASession == InitF /\ [][A_SessionNext]_vars

\* calls of endSession that have not finished folding
F_foldPending ==
  F_pending("endSession") \cup F_pending("summaryQuery")
    \cup F_pending("summaryInsert") \cup F_pending("summaryUpdate")

\* getWeeklySummary: what it returns for one date
F_getWeeklySummary(date) ==
  IF F_daily[date].exists THEN F_daily[date]
  ELSE [date |-> date, bad_posture_time |-> 0]

\* the Flutter screen used one session after another: Start and Stop are
\* tapped once per session
F_SeqNext ==
  \/ F_midnight /\ F_Others
  \/ F_connectBluetooth /\ F_Others
  \/ (\E pitch \in F_Pitches : F_onReading(pitch)) /\ F_Others
  \/ F_pressStart /\ F_pending("createSession") = {} /\ F_started < MaxFolds
       /\ F_Others
  \/ F_dbCreateSession /\ F_Others
  \/ (\E timer \in F_timers : F_timerTick(timer)) /\ F_Others
  \/ F_stopSession /\ F_foldPending = {} /\ F_Others
  \/ F_dbEndSession /\ F_Others
  \/ F_dbSummaryQuery /\ F_Others
  \/ F_dbSummaryInsert /\ F_Others
  \/ F_dbSummaryUpdate /\ F_Others
  \/ F_dbInsertReading /\ F_Others

SpecFSeq == InitF /\ [][F_SeqNext]_vars

(***************************************************************************)
(* part_001, streak view: the same handlers with one poll at a time (the   *)
(* response arrives before the next interval tick) and without the two     *)
(* sample lists, which no streak, achievement or notification update       *)
(* reads except through sessionData.length > 30 in toggleSession, left     *)
(* open here.  parseFloat accepts any angle, so the device can drive the   *)
(* smoothed angle to any target in one poll.                               *)
(***************************************************************************)
MaxStreak == 121               \* polls of one streak that are followed

\* smoothed angles (tenths) the polls of the streak view arrive at
B_StreakTargets == {100, 200, 300}

\* the raw angle for which smooth(lastSmoothedRef, raw, alpha) is target
B_rawFor(target) ==
  (100 * target - (100 - B_SMOOTHING_ALPHA100) * B_lastSmoothedRef)
    \div B_SMOOTHING_ALPHA100

\* pollESP from interval tick to the end of its response, uninterrupted
B_pollSample(target) ==
  /\ B_isActive /\ B_isConnected
  /\ B_inflight = <<>>
  /\ B_streak < MaxStreak
  /\ B_applySample(B_notification, B_rawFor(target))
  /\ UNCHANGED <<B_isConnected, B_isActive, B_sessionStartTime, B_elapsedTime,
                 B_liveData, B_sessionData, B_inflight>>

\* pollESP whose fetch fails, uninterrupted
B_pollSampleFails ==
  /\ B_isActive /\ B_isConnected
  /\ B_inflight = <<>>
  /\ B_isConnected' = FALSE
  /\ UNCHANGED <<B_isActive, B_currentAngle, B_liveData, B_sessionData,
                 B_notification, B_streak, B_achievements, B_sessionStartTime,
                 B_elapsedTime, B_lastSmoothedRef, B_bestStreakRef, B_inflight,
                 B_clearTimers>>

B_StreakNext ==
  \/ B_connectOk /\ B_Others
  \/ B_connectThrows /\ B_Others
  \/ B_notificationTimeout /\ B_Others
  \/ (\E longSession \in BOOLEAN : B_toggleSession(longSession)) /\ B_Others
  \/ (\E target \in B_StreakTargets : B_pollSample(target)) /\ B_Others
  \/ B_pollSampleFails /\ B_Others

SpecBStreak == InitB /\ [][B_StreakNext]_vars

(***************************************************************************)
(* part_002, long-slouch view: the same handlers followed for more than    *)
(* the 30 s of the positive reinforcement, in one session that is not      *)
(* stopped and has few samples that are not Bad; a notification is closed  *)
(* right after the tick that showed it.                                    *)
(***************************************************************************)
MaxReinforceSec == 33          \* seconds of session time followed
MaxNotBad == 1                 \* samples of a session that are not Bad

\* a good, a mild and a bad angle of the simulation (tenths)
P_ReinforceAngles == {20, 180, 280}

\* the interval fires in the long-slouch view
P_longTick(newAngle) ==
  /\ P_now + P_TICK_MS <= MaxReinforceSec * P_TICK_MS
  /\ P_getStatusFromAngle(newAngle) # P_STATUS.BAD.label =>
       Len(P_sessionHistory) - Len(P_withStatus(P_sessionHistory, P_STATUS.BAD.label))
         < MaxNotBad
  /\ P_sample(newAngle)

P_ReinforceNext ==
  \/ ~P_isSessionActive /\ P_handleToggleSession /\ P_Others
  \/ P_closeNotification(0) /\ P_Others
  \/ (\E newAngle \in P_ReinforceAngles : P_longTick(newAngle)) /\ P_Others

SpecPReinforce == InitP /\ [][P_ReinforceNext]_vars

InitClassify ==
  c_Init /\ B_Init /\ P_Init /\ F_Init /\ F_bleInit /\ A_Init
    /\ E_Init /\ A_sessInit

\* what the classifier harness leaves alone: the programs
c_Others ==
  UNCHANGED <<B_vars, P_vars, F_vars, F_bleVars, A_vars, E_vars, A_sessVars>>

c_Next ==
  \/ c_Classify /\ c_Others

SpecClassify == InitClassify /\ [][c_Next]_vars

(***************************************************************************)
(* Claims                                                                  *)
(***************************************************************************)
\* the four-class rule of the classifier contract, thresholds in degrees
ContractClass4(angle, excellent, good, fair) ==
  IF Abs(angle) <= Deg(excellent) THEN "Excellent"
  ELSE IF Abs(angle) <= Deg(good) THEN "Good"
  ELSE IF Abs(angle) <= Deg(fair) THEN "Fair"
  ELSE "Poor"

\* the same rule for a variant with three classes
ContractClass3(angle, good, mild, labels) ==
  IF Abs(angle) <= Deg(good) THEN labels[1]
  ELSE IF Abs(angle) <= Deg(mild) THEN labels[2]
  ELSE labels[3]

\* C1: every classifier variant gives an angle the best class whose threshold
\* its magnitude does not exceed; an angle exactly on a threshold gets the
\* better class.  (Stated for App.js, part_001 and part_002.)
C1_InclusiveBoundaries ==
  c_out # c_None =>
    /\ c_out.A = ContractClass4(c_angle, c_thr.excellentThreshold,
                                c_thr.goodThreshold, c_thr.fairThreshold)
    /\ c_out.B = ContractClass4(c_angle, B_STATUS.EXCELLENT.threshold,
                                B_STATUS.GOOD.threshold, B_STATUS.FAIR.threshold)
    /\ c_out.P = ContractClass3(c_angle, P_STATUS.GOOD.threshold,
                                P_STATUS.MILD.threshold,
                                <<P_STATUS.GOOD.label, P_STATUS.MILD.label,
                                  P_STATUS.BAD.label>>)

IsGoodLabel(status) == status = "Excellent" \/ status = "Good"

\* C2: on every streak tick (part_001: every applied sample) an Excellent or
\* Good state adds exactly 1 to the streak and every other state, Fair as
\* well as Poor, sets it to 0 at that tick.
C2_StreakTick ==
  [][\A target \in B_StreakTargets :
       B_pollSample(target) =>
         IF IsGoodLabel(B_getStatus(target)) THEN B_streak' = B_streak + 1
         ELSE B_streak' = 0]_vars

\* C3: a milestone is emitted exactly at the ticks at which the streak
\* reaches a positive multiple of 60, in every streak of the session.
C3_MilestoneEvery60 ==
  [][\A target \in B_StreakTargets :
       B_pollSample(target) =>
         ((B_streak' # B_streak /\ B_streak' > 0 /\ B_streak' % B_MILESTONE_1 = 0)
            <=> Len(B_achievements') = Len(B_achievements) + 1)]_vars

\* C4: no warning for a run of Poor samples shorter than the minimum dwell
\* time: the sample that begins a Poor run (its predecessor was not Poor)
\* issues no warning.
C4_NoWarnOnFirstPoorSample ==
  [][\A target \in B_StreakTargets :
       (/\ B_pollSample(target)
        /\ B_getStatus(B_lastSmoothedRef) # "Poor"
        /\ B_getStatus(target) = "Poor"
        /\ B_notification # "warning")
       => B_notification' # "warning"]_vars

\* C9: once the session is stopped no sample is appended to its data, also
\* not by a poll whose fetch was pending when stop was called.
C9_NoSampleAfterStop ==
  [][(~B_isActive /\ ~B_isActive') => B_sessionData' = B_sessionData]_vars

\* C10: at most one poll of a session is in progress at any time.
C10_OnePollInProgress ==
  Len(B_inflight) <= 1

\* the smallest cooldown longer than one sampling period
C5_CooldownMs == 2 * P_TICK_MS

\* C5: two Warn decisions are never issued within the cooldown of each
\* other, also when posture stays Poor and the previous warning has been
\* dismissed.
C5_WarnCooldown ==
  [][(P_lastWarnAt' # P_lastWarnAt /\ P_lastWarnAt # NoTime)
       => P_lastWarnAt' - P_lastWarnAt >= C5_CooldownMs]_vars

\* the end-to-end scenario (tenths of a degree) and its classes in part_002
C6_Angles == <<20, 80, 180, 280, 280, 280, 20>>
C6_Statuses == [i \in 1 .. Len(C6_Angles) |-> P_getStatusFromAngle(C6_Angles[i])]

\* the session's samples so far are the first k of the scenario, 1 s apart
C6_ScenarioPrefix(k) ==
  /\ Len(P_sessionHistory) = k
  /\ \A i \in 1 .. k : P_sessionHistory[i].status = C6_Statuses[i]
  /\ \A i \in 2 .. k :
       P_sessionHistory[i].t - P_sessionHistory[i - 1].t = P_TICK_MS

\* C6: at 1 Hz with a minimum duration of 3 s the scenario issues Warn at
\* the third consecutive Poor sample (the sixth sample): not before it and
\* not later.
C6_WarnAtThirdPoor ==
  \A k \in 1 .. Len(C6_Angles) :
    C6_ScenarioPrefix(k) =>
      IF k < 6 THEN P_lastWarnAt < P_sessionHistory[1].t
      ELSE P_lastWarnAt = P_sessionHistory[6].t

(***************************************************************************)
(* C7: in every reachable state of an active or sealed session the seconds *)
(* credited to good posture, to bad posture and to every other state add   *)
(* up to the session's duration.  The Flutter screen stores good and bad   *)
(* seconds only; F_otherSeconds counts the ticks it credits to neither, so *)
(* in a sealed row the other states' share is what is left of the          *)
(* duration.                                                               *)
(***************************************************************************)
C7_SecondsAddUp ==
  /\ F_goodPostureSeconds + F_badPostureSeconds + F_otherSeconds = F_sessionTime
  /\ \A i \in 1 .. Len(F_dbQueue) :
       F_dbQueue[i].kind = "endSession" =>
         F_dbQueue[i].stats.goodPostureTime + F_dbQueue[i].stats.badPostureTime
           <= F_dbQueue[i].stats.totalDuration
  /\ \A i \in 1 .. Len(F_sessions) :
       F_sessions[i].is_active = 0 =>
         F_sessions[i].good_posture_time + F_sessions[i].bad_posture_time
           <= F_sessions[i].total_duration

\* a sealed two-second session with one good second and one second of
\* 'mild', which the screen credits to neither counter
C7_SealedWithOtherSecond ==
  /\ F_otherSeconds = 1
  /\ F_goodPostureSeconds = 1
  /\ \E i \in 1 .. Len(F_sessions) :
       /\ F_sessions[i].is_active = 0
       /\ F_sessions[i].total_duration = 2
       /\ F_sessions[i].good_posture_time = 1
       /\ F_sessions[i].bad_posture_time = 0

RECURSIVE SumOver(_, _)
SumOver(S, f) ==
  IF S = {} THEN 0
  ELSE LET x == CHOOSE y \in S : TRUE IN f[x] + SumOver(S \ {x}, f)

F_sealed == {i \in 1 .. Len(F_sessions) : F_sessions[i].is_active = 0}

(***************************************************************************)
(* C8: each session is folded into the daily summary exactly once under    *)
(* every interleaving of stop requests: the summaries never hold more      *)
(* sessions or more seconds than the sealed sessions have, and two folds   *)
(* never both take the 'no row yet' branch for one date.                   *)
(***************************************************************************)
C8_FoldedOnce ==
  /\ \A i, j \in F_pending("summaryInsert") :
       i # j => F_dbQueue[i].date # F_dbQueue[j].date
  /\ SumOver(F_Days, [d \in F_Days |-> F_daily[d].total_sessions])
       <= Cardinality(F_sealed)
  /\ SumOver(F_Days, [d \in F_Days |-> F_daily[d].total_duration])
       <= SumOver(F_sealed, [i \in F_sealed |-> F_sessions[i].total_duration])

(***************************************************************************)
(* C11: each reading the device emits is applied at most once and the      *)
(* session's duration advances by at most one second per second: a second  *)
(* scan or a second Start never leaves two live subscriptions or two       *)
(* session timers, and no reading is on its way to the listener twice.     *)
(***************************************************************************)
C11_OneSourcePerSession ==
  /\ F_subscriptions <= 1
  /\ Cardinality(F_timers) <= 1
  /\ \A i, j \in 1 .. Len(F_delivering) :
       i # j => F_delivering[i].seq # F_delivering[j].seq

\* the sealed sessions folded on a date
F_sealedOn(date) == {i \in F_sealed : F_sessions[i].end_day = date}

(***************************************************************************)
(* C12: after the sessions of one date have been folded one after another  *)
(* the date's summary row holds their number and the sums of their         *)
(* duration, good and bad seconds; for one session, getWeeklySummary       *)
(* returns that session's good and bad seconds.  Sessions that start and   *)
(* end on the same date are considered.                                    *)
(***************************************************************************)
C12_AdditiveFolds ==
  (/\ F_foldPending = {}
   /\ \A i \in F_sealed : F_sessions[i].start_day = F_sessions[i].end_day)
  => \A date \in F_Days :
       LET folded == F_sealedOn(date)
           row == F_getWeeklySummary(date)
           sum(field) == SumOver(folded, [i \in folded |-> F_sessions[i][field]])
       IN /\ F_daily[date].exists <=> folded # {}
          /\ folded # {} =>
               /\ row.total_sessions = Cardinality(folded)
               /\ row.total_duration = sum("total_duration")
               /\ row.good_posture_time = sum("good_posture_time")
               /\ row.bad_posture_time = sum("bad_posture_time")

\* two sessions of the first day folded, the second one with bad seconds
C12_TwoFoldedOnOneDay ==
  /\ F_foldPending = {}
  /\ Cardinality(F_sealedOn(1)) = 2
  /\ \A i \in F_sealed : F_sessions[i].start_day = F_sessions[i].end_day
  /\ F_daily[1].total_sessions = 2
  /\ F_daily[1].total_duration > F_sessions[2].total_duration
  /\ F_sessions[2].bad_posture_time > 0

(***************************************************************************)
(* C13: a session is folded into the summary of the calendar date on which *)
(* it started, also when it is stopped on a later date: no date's row      *)
(* counts more sessions than were started on that date and sealed.         *)
(***************************************************************************)
C13_KeyedByStartDate ==
  \A date \in F_Days :
    F_daily[date].total_sessions
      <= Cardinality({i \in F_sealed : F_sessions[i].start_day = date})

\* the time (ms) a sample of the history closes: since the sample before
\* it, for the first sample since the interval was set
C14_SpanMs(history, i) ==
  IF i = 1 THEN P_TICK_MS ELSE history[i].t - history[i - 1].t

\* the time (ms) of the history spent up to samples of a status
C14_DeltaMs(history, label) ==
  LET closing == {i \in 1 .. Len(history) : history[i].status = label}
  IN SumOver(closing, [i \in closing |-> C14_SpanMs(history, i)])

(***************************************************************************)
(* C14: the seconds credited to a posture state are the differences of the *)
(* samples' timestamps, not a fixed unit per sample: the summary's good,   *)
(* mild and bad seconds equal the time between the samples that the stream *)
(* spent closing on each state.                                            *)
(***************************************************************************)
C14_CreditIsTimestampDelta ==
  LET stats == P_summaryStats(P_sessionHistory) IN
    /\ 1000 * stats.badTime = C14_DeltaMs(P_sessionHistory, P_STATUS.BAD.label)
    /\ 1000 * stats.mildTime = C14_DeltaMs(P_sessionHistory, P_STATUS.MILD.label)
    /\ 1000 * stats.goodTime = C14_DeltaMs(P_sessionHistory, P_STATUS.GOOD.label)

(***************************************************************************)
(* C15: after start the session's record is zeroed and nothing carried     *)
(* over from before the start contributes to its statistics: while a later *)
(* session has received no reading of its own, its good and bad seconds,   *)
(* its angle sum and its worst angle are still 0.                          *)
(***************************************************************************)
C15_FreshStart ==
  (/\ F_isSessionActive
   /\ F_currentSessionId > 1
   /\ F_realtimeData = <<>>)
  => /\ F_goodPostureSeconds = 0
     /\ F_badPostureSeconds = 0
     /\ F_totalAngle = 0
     /\ F_worstAngle = 0

\* the worst moments the summary screen lists for the recorded session
C16_Top == P_summaryStats(P_sessionHistory).topBadMoments

\* a recorded sample appears in the list
C16_Listed(p) ==
  \E i \in 1 .. Len(C16_Top) :
    /\ C16_Top[i].time = P_toLocaleTimeString(p.t)
    /\ C16_Top[i].angle = p.angle

(***************************************************************************)
(* C16: the top worst moments are at most 3, no recorded sample left out   *)
(* has a larger |angle| than a listed one, the list is ordered by          *)
(* decreasing |angle|, and of two entries with the same |angle| the more   *)
(* recent one comes first.                                                 *)
(***************************************************************************)
C16_TopWorstMoments ==
  /\ Len(C16_Top) <= 3
  /\ \A k \in 1 .. Len(P_sessionHistory) :
       ~C16_Listed(P_sessionHistory[k]) =>
         \A i \in 1 .. Len(C16_Top) :
           Abs(P_sessionHistory[k].angle) <= Abs(C16_Top[i].angle)
  /\ \A i, j \in 1 .. Len(C16_Top) :
       i < j =>
         /\ Abs(C16_Top[i].angle) >= Abs(C16_Top[j].angle)
         /\ Abs(C16_Top[i].angle) = Abs(C16_Top[j].angle)
              => C16_Top[i].time >= C16_Top[j].time

\* the largest |angle| of the readings the session has received
C17_MaxReceived ==
  LET seen == {Abs(F_realtimeData[i].angle) : i \in 1 .. Len(F_realtimeData)}
  IN IF seen = {} THEN 0 ELSE CHOOSE m \in seen : \A x \in seen : x <= m

(***************************************************************************)
(* C17: when a session is stopped its worst angle is the maximum of        *)
(* |angle| over the samples received while it was active: the statistics   *)
(* Stop hands to endSession carry no smaller worst angle than a reading    *)
(* the session received.                                                   *)
(***************************************************************************)
C17_WorstIsMaxReceived ==
  [][(F_stopSession /\ F_currentSessionId # 0)
       => F_sessionStats.worstAngle >= C17_MaxReceived]_vars

(***************************************************************************)
(* C18: after any sequence of threshold changes (sliders, reset, load from *)
(* storage) the thresholds in effect satisfy 0 < excellent < good < fair.  *)
(***************************************************************************)
C18_ThresholdsOrdered ==
  /\ 0 < A_settings.excellentThreshold
  /\ A_settings.excellentThreshold < A_settings.goodThreshold
  /\ A_settings.goodThreshold < A_settings.fairThreshold

\* how bad a state is: 0 for the best label of its classifier
Severity(label) ==
  CASE label \in {"Excellent", "good"} -> 0
    [] label \in {"Good", "mild"} -> 1
    [] label \in {"Fair", "bad"} -> 2
    [] label = "Poor" -> 3

(***************************************************************************)
(* C19: for valid thresholds, an angle of larger magnitude never gets a    *)
(* better state: for the classified angle a and every angle b with         *)
(* |a| <= |b|, classify(b) is at least as severe as classify(a).  (App.js  *)
(* getStatus and the Flutter getPostureStatus.)                            *)
(***************************************************************************)
C19_SeverityMonotonic ==
  c_out # c_None =>
    \A b \in (-MaxAbsAngle) .. MaxAbsAngle :
      Abs(c_angle) <= Abs(b) =>
        /\ Severity(c_out.A) <= Severity(A_getStatus(b, c_thr))
        /\ Severity(c_out.F) <= Severity(F_getPostureStatus(b))

\* an angle in App.js's Fair zone, bad for the Flutter classifier, with
\* worse and better states on either side
C19_FairAngleClassified ==
  /\ c_out # c_None
  /\ c_out.A = "Fair"
  /\ c_out.F = "bad"
  /\ c_thr = A_DEFAULT_SETTINGS

(***************************************************************************)
(* C20: every classifier gives an angle and its negative the same state.   *)
(* (App.js, part_001 and part_002.)                                        *)
(***************************************************************************)
C20_Symmetric ==
  c_out # c_None =>
    /\ c_out.A = A_getStatus(-c_angle, c_thr)
    /\ c_out.B = B_getStatus(-c_angle)
    /\ c_out.P = P_getStatusFromAngle(-c_angle)

\* a negative angle outside the best zone has been classified
C20_NegativeAngleClassified ==
  /\ c_out # c_None
  /\ c_angle = -180
  /\ c_out.B = "Fair"
  /\ c_out.P = "Mild Slouch"

\* C21: in a session the best streak is at least the current streak and is
\* the maximum the current streak has taken since the session started: a
\* start sets both to the same value, and every other step leaves the best
\* streak at the larger of its old value and the new current streak.
C21_BestIsMaxOfStreak ==
  [][/\ B_bestStreakRef' >= B_streak'
     /\ B_bestStreakRef' =
          IF ~B_isActive /\ B_isActive' THEN B_streak'
          ELSE Max(B_bestStreakRef, B_streak')]_vars

\* a second, shorter streak of the session is running
C21_ShorterSecondStreak ==
  /\ B_isActive
  /\ B_streak > 0
  /\ B_bestStreakRef > B_streak

\* C25: an iteration of the firmware loop whose sensor read fails is 'no
\* sample this tick': angle_pitch, angle_roll and the angle served to
\* clients keep their values.
C25_FailedReadKeepsAngles ==
  [][\A event \in E_Samples, elapsed \in E_Elapsed :
       E_loop(FALSE, event, elapsed) =>
         UNCHANGED <<E_angle_pitch, E_angle_roll, E_current_angle_for_web>>]_vars

\* C26: in every iteration of the firmware loop dt is recomputed, is not
\* negative and is the time that passed since micros() was read last, also
\* in the iteration in which the 32-bit counter wraps around.
C26_DtIsElapsedTime ==
  [][\A readOk \in BOOLEAN, event \in E_Samples, elapsed \in E_Elapsed :
       E_loop(readOk, event, elapsed) => (E_dt' = elapsed /\ E_dt' >= 0)]_vars

\* the counter wrapped around between the last two readings of micros()
C26_WrappedThisIteration ==
  /\ E_loops > 0
  /\ E_last_time.hi = 0
  /\ E_last_time.lo < E_dt

\* C27: the firmware serves no angle before the first fusion step: none at
\* all when the sensor is not found at startup, and none while no iteration
\* of the loop has completed its fusion step.
C27_NoAngleBeforeFirstValue ==
  [][/\ E_pc' = "halted" => E_responses' = <<>>
     /\ Len(E_responses') > Len(E_responses) => E_loops > 0]_vars

\* C30: after every iteration of the firmware loop the motor pin is HIGH
\* exactly when the roll or the pitch of that iteration is beyond 40 degrees,
\* whatever the pin was before.
C30_MotorFollowsAngles ==
  E_loops > 0 =>
    (E_motorPin = "HIGH"
       <=> \/ Abs(E_final(E_angle_roll, E_roll_offset)) > Deg(40)
           \/ Abs(E_final(E_angle_pitch, E_pitch_offset)) > Deg(40))

\* the first iteration switches the motor on for the pitch alone
C30_HighAtOnceByPitch ==
  /\ E_loops = 1
  /\ E_motorPin = "HIGH"
  /\ Abs(E_final(E_angle_roll, E_roll_offset)) <= Deg(40)
  /\ Abs(E_final(E_angle_pitch, E_pitch_offset)) > Deg(40)

\* the time (ms) for which the samples of history have been Good without a
\* break, up to its last sample
C23_GoodRunMs(history) ==
  LET n == Len(history)
      notGood == {i \in 1 .. n : history[i].status # P_STATUS.GOOD.label}
      first == IF notGood = {} THEN 1
               ELSE (CHOOSE i \in notGood : \A j \in notGood : j <= i) + 1
  IN IF first > n THEN 0 ELSE history[n].t - history[first].t

\* C23: a 'success' (positive reinforcement) notification is raised only by
\* a sample in good posture, when good posture has lasted the reinforcement
\* time without a break and no alert is showing; time in bad posture does
\* not count.
C23_ReinforceOnlyAfterGoodTime ==
  [][(P_notification' = "success" /\ P_notification # "success") =>
       /\ P_postureStatus' = P_STATUS.GOOD.label
       /\ C23_GoodRunMs(P_sessionHistory') >= P_REINFORCE_MS
       /\ P_notification # "alert"]_vars

\* C22: while a session is active and the posture stays Excellent or Good
\* the streak grows by exactly 1 for each second that passes, however often
\* samples arrive: it is the number of whole seconds since then (less one at
\* the instant at which its tick is due).
C22_StreakCountsSeconds ==
  (A_isActive /\ A_goodSince # NoTime) =>
    LET seconds == (A_now - A_goodSince) \div A_SECOND
    IN \/ A_streak = seconds
       \/ A_streakDue = A_now /\ A_streak = seconds - 1

\* the rows of sessions that are not sealed
C24_ActiveRows ==
  {i \in 1 .. Len(F_sessions) : F_sessions[i].is_active = 1}

\* C24: start while a session is active and stop while none is active change
\* nothing: no session is created alongside an active one, and a session
\* that is not active is not sealed (and so not folded) again.
C24_OutOfOrderRejected ==
  [][/\ Len(F_sessions') > Len(F_sessions) => C24_ActiveRows = {}
     /\ F_dbEndSession => Head(F_dbQueue).id \in C24_ActiveRows]_vars

\* C28: toggleSession with no session and no connection leaves isActive
\* false and the session data, live data, streak and elapsed time as they
\* are, and raises an error notification; a session becomes active only
\* while the device is connected.
C28_NoStartWithoutConnection ==
  [][/\ (A_toggleSession /\ ~A_isActive /\ ~A_isConnected) =>
          /\ ~A_isActive'
          /\ UNCHANGED <<A_sessionData, A_liveData, A_streak, A_elapsedTime>>
          /\ A_notification' = "error"
     /\ (~A_isActive /\ A_isActive') => A_isConnected]_vars

\* a start was refused after a session whose data is still there
C28_RefusedAfterSession ==
  /\ A_notification = "error"
  /\ ~A_isActive
  /\ ~A_isConnected
  /\ A_sessionData # <<>>

\* C29: a failed poll of the App.js dashboard changes neither the connection
\* flag nor the current and last smoothed angle nor the live and session
\* data, and the interval fires again one poll interval later.
C29_FailedPollChangesNothing ==
  [][A_pollTick(FALSE, 0) =>
       /\ UNCHANGED A_dataVars
       /\ A_pollDue' = A_now' + A_POLL_INTERVAL]_vars

\* connected and in a session, a poll interval has gone by without a sample
C29_TickWithoutSample ==
  /\ A_isActive
  /\ A_isConnected
  /\ A_sessionData # <<>>
  /\ A_now = A_sessionData[Len(A_sessionData)].t + A_POLL_INTERVAL
  /\ A_pollDue = A_now + A_POLL_INTERVAL

====
